---- MODULE Spec2Model ----
(***************************************************************************)
(* Model of deadlink-detector.py: the recursive crawl of crawl_page, the   *)
(* liveness probe of check_link, the process-wide counters and visited     *)
(* set, and the CSV log of broken links.                                   *)
(*                                                                         *)
(* Strings are sequences of tokens: the URL "http://a/p#x" is              *)
(* <<"http://", "a", "/p", "#", "x">>, so that str.startswith is sequence  *)
(* prefix and str.split('#')[0] is the part before the first "#" token.    *)
(***************************************************************************)
EXTENDS Integers, Sequences, FiniteSets, TLC

VARIABLES
    start_url,      \* global start_url (line 180)
    use_external,   \* global use_external (line 182)
    max_internal,   \* global max_internal (line 183)
    max_external,   \* global max_external (line 184)
    visited,        \* global visited (line 23)
    broken_links,   \* global broken_links (line 24), a defaultdict(list)
    page_counter,   \* global page_counter (line 25)
    link_counter,   \* global link_counter (line 26)
    ok_counter,     \* global ok_counter (line 27)
    broken_counter, \* global broken_counter (line 28)
    log,            \* content of the file log_filename, a sequence of CSV rows
    stack,          \* the call stack of crawl_page activations
    pc,             \* position of the main program
    report,         \* what print_final_report printed
    trace,          \* the HTTP requests and sleeps issued so far, in order
    faults          \* number of failing responses the servers have given

vars == <<start_url, use_external, max_internal, max_external, visited,
          broken_links, page_counter, link_counter, ok_counter,
          broken_counter, log, stack, pc, report, trace, faults>>

config == <<start_url, use_external, max_internal, max_external>>

-----------------------------------------------------------------------------
(* Bounds of the model.                                                    *)

MaxInternalCfg == 2     \* --depth-internal ranges over 0..MaxInternalCfg
MaxExternalCfg == 1     \* --depth-external ranges over 0..MaxExternalCfg
MaxFaults == 2          \* failing responses a server may choose to give
MaxUrlLen == 3          \* tokens of a URL given to the fragment stripping
MaxFragLen == 2         \* tokens of a fragment

-----------------------------------------------------------------------------
(* Python values that reach `if err:` and the CSV writer.                  *)

PyNone == [tag |-> "none", int |-> 0, str |-> <<>>]
PyInt(n) == [tag |-> "int", int |-> n, str |-> <<>>]
PyStr(s) == [tag |-> "str", int |-> 0, str |-> s]

\* Python truth value of an object: None, 0 and "" are false.
Truthy(v) ==
    CASE v.tag = "none" -> FALSE
      [] v.tag = "int"  -> v.int # 0
      [] v.tag = "str"  -> v.str # <<>>

\* The text csv.writer writes for a cell.
CsvCell(v) ==
    CASE v.tag = "none" -> <<>>
      [] v.tag = "int"  -> <<ToString(v.int)>>
      [] v.tag = "str"  -> v.str

CsvHeader == << <<"Source Page">>, <<"Broken Link">>, <<"Error/Status">> >>

PageLoadErrorPrefix == "PAGE LOAD ERROR: "

BrokenStatus == 400

-----------------------------------------------------------------------------
(* URL helpers.                                                            *)

\* str.startswith
StartsWith(s, p) == Len(p) <= Len(s) /\ SubSeq(s, 1, Len(p)) = p

\* url.rsplit('#', 1)[0]: the cut at the last '#' instead of the first.
SplitHashLast(url) ==
    IF \E i \in 1..Len(url) : url[i] = "#"
    THEN LET last == CHOOSE i \in 1..Len(url) :
                         /\ url[i] = "#"
                         /\ \A j \in (i + 1)..Len(url) : url[j] # "#"
         IN  SubSeq(url, 1, last - 1)
    ELSE url

\* url.split('#')[0]
SplitHashFirst(url) ==
    IF \E i \in 1..Len(url) : url[i] = "#"
    THEN LET first == CHOOSE i \in 1..Len(url) :
                          /\ url[i] = "#"
                          /\ \A j \in 1..(i - 1) : url[j] # "#"
         IN  SubSeq(url, 1, first - 1)
    ELSE url

is_http_url(url) == StartsWith(url, <<"http://">>) \/ StartsWith(url, <<"https://">>)

HasScheme(ref) ==
    Len(ref) > 0 /\ ref[1] \in {"http://", "https://", "ftp://", "mailto:"}

\* urllib.parse.urljoin raises ValueError on a reference whose authority
\* holds an unbalanced bracket.
UrljoinRaises(base, href) == Len(href) > 0 /\ href[1] = "//["

\* urllib.parse.urljoin for the references of the model: an absolute URL
\* replaces the base, a fragment-only reference replaces the base's fragment,
\* an absolute path replaces the base's path.
urljoin(base, href) ==
    IF href = <<>> THEN base
    ELSE IF HasScheme(href) THEN href
    ELSE IF href[1] = "#" THEN SplitHashFirst(base) \o href
    ELSE SubSeq(base, 1, 2) \o href

-----------------------------------------------------------------------------
(* The web the crawler runs against.                                       *)

SiteA  == <<"http://", "a">>
PageP  == <<"http://", "a", "/p">>
PageQ  == <<"http://", "a", "/q">>
PageR  == <<"http://", "a", "/r">>
SiteB  == <<"http://", "b">>
PageBP == <<"http://", "b", "/p">>

\* The hrefs of the <a> tags of the page at a URL, in document order.
Anchors(url) ==
    CASE url = SiteA  -> << <<"#", "x">>, <<"/p">>, <<"/q">> >>
      [] url = PageP  -> << <<"/q">>, SiteB >>
      [] url = PageQ  -> << <<"/r">>, SiteA >>
      [] url = PageR  -> << <<"//[">>, <<"/p">> >>
      [] url = SiteB  -> << PageP \o <<"#", "x">>, <<"/p">> >>
      [] url = PageBP -> << <<"mailto:", "x">> >>
      [] OTHER        -> << >>

\* The start URLs given on the command line.
Seeds ==
    { SiteA, PageQ, SiteA \o <<"#", "x">>, <<"ftp://", "a">> }

\* Outcomes of requests.get + raise_for_status: the page, or an exception
\* with its message. requests has no adapter for a URL that is not http(s).
GetResponses(url) ==
    (IF is_http_url(url) THEN {[ok |-> TRUE, msg |-> <<>>, forced |-> FALSE]} ELSE {})
    \cup
    (IF is_http_url(url)
     THEN {[ok |-> FALSE, msg |-> m, forced |-> FALSE] : m \in {<<"404 Client Error">>, <<>>}}
     ELSE {[ok |-> FALSE, msg |-> <<"No connection adapters">>, forced |-> TRUE]})

\* Outcomes of requests.head: a status code, or an exception with its message.
HeadResponses(url) ==
    IF is_http_url(url)
    THEN {[exc |-> FALSE, status |-> 200, msg |-> <<>>, forced |-> FALSE],
          [exc |-> FALSE, status |-> 400, msg |-> <<>>, forced |-> FALSE],
          [exc |-> TRUE, status |-> 0, msg |-> <<"timeout">>, forced |-> FALSE],
          [exc |-> TRUE, status |-> 0, msg |-> <<>>, forced |-> FALSE]}
    ELSE {[exc |-> TRUE, status |-> 0, msg |-> <<"No connection adapters">>, forced |-> TRUE]}

HeadFails(resp) == resp.exc \/ resp.status >= BrokenStatus

\* A server may choose to fail while the fault budget lasts.
Affordable(failed, resp) == ~failed \/ resp.forced \/ faults < MaxFaults

Spend(failed, resp) == IF failed /\ ~resp.forced THEN faults + 1 ELSE faults

-----------------------------------------------------------------------------
(* The operations of the program.                                          *)

\* write_broken_link_to_log: one row appended to the file.
write_broken_link_to_log(file, source_page, bad_link, error) ==
    Append(file, <<source_page, bad_link, CsvCell(error)>>)

\* broken_links[key].append(entry) on a defaultdict(list).
AppendBroken(dict, key, entry) ==
    IF key \in DOMAIN dict
    THEN [dict EXCEPT ![key] = Append(@, entry)]
    ELSE [k \in DOMAIN dict \cup {key} |->
              IF k = key THEN <<entry>> ELSE dict[k]]

\* check_link with `>` for `>=` at line 66: status 400 counts as working.
check_link_strict(base_url, link_url, resp) ==
    LET full_url == urljoin(base_url, link_url)
        links    == link_counter + 1
    IN  IF resp.exc \/ resp.status > BrokenStatus
        THEN [link_counter |-> links, ok_counter |-> ok_counter,
              broken_counter |-> broken_counter + 1,
              bad |-> full_url,
              err |-> IF resp.exc THEN PyStr(resp.msg) ELSE PyInt(resp.status)]
        ELSE [link_counter |-> links, ok_counter |-> ok_counter + 1,
              broken_counter |-> broken_counter,
              bad |-> <<>>, err |-> PyNone]

\* check_link: the counters after the call and the pair it returns, for the
\* response resp of the HEAD request.
check_link(base_url, link_url, resp) ==
    LET full_url == urljoin(base_url, link_url)
        links    == link_counter + 1
    IN  IF resp.exc
        THEN [link_counter |-> links, ok_counter |-> ok_counter,
              broken_counter |-> broken_counter + 1,
              bad |-> full_url, err |-> PyStr(resp.msg)]
        ELSE IF resp.status >= BrokenStatus
        THEN [link_counter |-> links, ok_counter |-> ok_counter,
              broken_counter |-> broken_counter + 1,
              bad |-> full_url, err |-> PyInt(resp.status)]
        ELSE [link_counter |-> links, ok_counter |-> ok_counter + 1,
              broken_counter |-> broken_counter,
              bad |-> <<>>, err |-> PyNone]

\* Line 102 without the prefix.
page_load_error_bare(msg) == PyStr(msg)

\* crawl_page, line 102: the error text of a failed page load.
page_load_error(msg) == PyStr(<<PageLoadErrorPrefix>> \o msg)

\* The file opened in mode 'a' at line 189.
PrepareCsvLog_append(file) == Append(file, CsvHeader)

\* __main__, lines 189-191: the file opened in mode 'w' and the header row.
PrepareCsvLog(file) == <<CsvHeader>>

\* The dedup check left out.
AlreadyVisited_never(normalized) == FALSE

\* crawl_page, line 80: the dedup check.
AlreadyVisited(normalized) == normalized \in visited

\* crawl_page, line 84: internal or external.
IsInternal(normalized) == StartsWith(normalized, start_url)

\* The depth checks without the test of use_external at line 91.
DepthAllows_noflag(internal, depth) ==
    IF internal
    THEN ~(depth > max_internal)
    ELSE ~(depth > max_external)

\* crawl_page, lines 87-92: TRUE when the depth checks let the page through.
DepthAllows(internal, depth) ==
    IF internal
    THEN ~(depth > max_internal)
    ELSE ~((~use_external) \/ depth > max_external)

\* Line 113 without the test of use_external: every external link is skipped.
SkipLink_external(full) == ~StartsWith(full, start_url)

\* Line 113 skipping also the internal links that lie beyond the depth limit.
SkipLink_beyond_depth(full) ==
    \/ ~StartsWith(full, start_url) /\ ~use_external
    \/ StartsWith(full, start_url) /\ stack[Len(stack)].depth + 1 > max_internal

\* Line 113 without the skip.
SkipLink_never(full) == FALSE

\* crawl_page, line 113: the link is skipped.
SkipLink(full) == ~StartsWith(full, start_url) /\ ~use_external

\* Lines 134 and 137 with `<` for `<=`.
Recurse_strict(full, next_depth) ==
    IF StartsWith(full, start_url)
    THEN next_depth < max_internal
    ELSE use_external /\ next_depth < max_external

\* crawl_page, lines 132-138: the link is crawled into.
Recurse(full, next_depth) ==
    IF StartsWith(full, start_url)
    THEN next_depth <= max_internal
    ELSE use_external /\ next_depth <= max_external

\* crawl_page, line 127: the check reported an error.
ErrorReported(err) == Truthy(err)

Call(url, depth) ==
    [url |-> url, depth |-> depth, at |-> "enter",
     normalized |-> <<>>, hrefs |-> <<>>, idx |-> 0]

Top == stack[Len(stack)]

Pop == SubSeq(stack, 1, Len(stack) - 1)

\* A request or sleep: what was done, the page being crawled, the URL
\* requested, the depth of the page, and whether the request succeeded.
Event(op, page, url, depth, ok) ==
    [op |-> op, page |-> page, url |-> url, depth |-> depth, ok |-> ok]

StaleRow == << <<"stale">>, <<"stale">>, <<"stale">> >>

Init ==
    /\ start_url \in Seeds
    /\ use_external \in BOOLEAN
    /\ max_internal \in 0..MaxInternalCfg
    /\ max_external \in 0..MaxExternalCfg
    /\ visited = {}
    /\ broken_links = << >>
    /\ page_counter = 0
    /\ link_counter = 0
    /\ ok_counter = 0
    /\ broken_counter = 0
    /\ log \in {<< >>, <<StaleRow>>}
    /\ stack = << >>
    /\ pc = "main"
    /\ report = << >>
    /\ trace = << >>
    /\ faults = 0

\* __main__, lines 177-200: the log is truncated and the header written,
\* then crawl_page(start_url, depth=0) is called.
Main ==
    /\ pc = "main"
    /\ log' = PrepareCsvLog(log)
    /\ stack' = <<Call(start_url, 0)>>
    /\ pc' = "crawl"
    /\ UNCHANGED <<config, visited, broken_links, page_counter, link_counter,
                   ok_counter, broken_counter, report, trace, faults>>

Entering == pc = "crawl" /\ stack # << >> /\ Top.at = "enter"

\* crawl_page, lines 79-81: the URL was visited, return.
CrawlVisited ==
    /\ Entering
    /\ AlreadyVisited(SplitHashFirst(Top.url))
    /\ stack' = Pop
    /\ UNCHANGED <<config, visited, broken_links, page_counter, link_counter,
                   ok_counter, broken_counter, log, pc, report, trace, faults>>

\* The URL marked as visited at line 80, before the depth checks.
CrawlTooDeep_marks ==
    /\ Entering
    /\ LET normalized == SplitHashFirst(Top.url)
       IN  /\ ~AlreadyVisited(normalized)
           /\ ~DepthAllows(IsInternal(normalized), Top.depth)
           /\ visited' = visited \cup {normalized}
    /\ stack' = Pop
    /\ UNCHANGED <<config, broken_links, page_counter, link_counter,
                   ok_counter, broken_counter, log, pc, report, trace, faults>>

\* crawl_page, lines 79-92: the depth checks reject the URL, return.
CrawlTooDeep ==
    /\ Entering
    /\ LET normalized == SplitHashFirst(Top.url)
       IN  /\ ~AlreadyVisited(normalized)
           /\ ~DepthAllows(IsInternal(normalized), Top.depth)
    /\ stack' = Pop
    /\ UNCHANGED <<config, visited, broken_links, page_counter, link_counter,
                   ok_counter, broken_counter, log, pc, report, trace, faults>>

\* crawl_page, lines 79-105: the page is fetched and the fetch fails.
CrawlLoadError ==
    /\ Entering
    /\ LET normalized == SplitHashFirst(Top.url)
       IN  /\ ~AlreadyVisited(normalized)
           /\ DepthAllows(IsInternal(normalized), Top.depth)
           /\ \E resp \in GetResponses(normalized) :
                 /\ ~resp.ok
                 /\ Affordable(TRUE, resp)
                 /\ faults' = Spend(TRUE, resp)
                 /\ LET err == page_load_error(resp.msg)
                    IN  /\ broken_links' =
                              AppendBroken(broken_links, normalized, <<normalized, err>>)
                        /\ log' = write_broken_link_to_log(log, normalized, normalized, err)
           /\ visited' = visited \cup {normalized}
           /\ page_counter' = page_counter + 1
           /\ trace' = Append(trace, Event("GET", normalized, normalized, Top.depth, FALSE))
    /\ stack' = Pop
    /\ UNCHANGED <<config, link_counter, ok_counter, broken_counter, pc, report>>

\* crawl_page, lines 79-108: the page is fetched and parsed; the loop over
\* its anchors starts.
CrawlLoaded ==
    /\ Entering
    /\ LET normalized == SplitHashFirst(Top.url)
       IN  /\ ~AlreadyVisited(normalized)
           /\ DepthAllows(IsInternal(normalized), Top.depth)
           /\ \E resp \in GetResponses(normalized) : resp.ok
           /\ visited' = visited \cup {normalized}
           /\ page_counter' = page_counter + 1
           /\ trace' = Append(trace, Event("GET", normalized, normalized, Top.depth, TRUE))
           /\ stack' = Append(Pop, [Top EXCEPT !.at = "loop",
                                               !.normalized = normalized,
                                               !.hrefs = Anchors(normalized),
                                               !.idx = 1])
    /\ UNCHANGED <<config, broken_links, link_counter, ok_counter, broken_counter,
                   log, pc, report, faults>>

Looping ==
    pc = "crawl" /\ stack # << >> /\ Top.at = "loop" /\ Top.idx <= Len(Top.hrefs)

\* crawl_page, line 110: urljoin raises ValueError; nothing catches it, the
\* exception leaves every activation of crawl_page and ends the program.
LinkRaises ==
    /\ Looping
    /\ UrljoinRaises(Top.normalized, Top.hrefs[Top.idx])
    /\ stack' = << >>
    /\ pc' = "crashed"
    /\ UNCHANGED <<config, visited, broken_links, page_counter, link_counter,
                   ok_counter, broken_counter, log, report, trace, faults>>

\* crawl_page, lines 108-114: an external link that is not wanted, continue.
LinkSkipped ==
    /\ Looping
    /\ ~UrljoinRaises(Top.normalized, Top.hrefs[Top.idx])
    /\ SkipLink(SplitHashFirst(urljoin(Top.normalized, Top.hrefs[Top.idx])))
    /\ stack' = Append(Pop, [Top EXCEPT !.idx = @ + 1])
    /\ UNCHANGED <<config, visited, broken_links, page_counter, link_counter,
                   ok_counter, broken_counter, log, pc, report, trace, faults>>

\* crawl_page, lines 108-138: the link is checked, a broken link is recorded,
\* and crawl_page is called for the link when the depth limits allow.
LinkChecked ==
    /\ Looping
    /\ ~UrljoinRaises(Top.normalized, Top.hrefs[Top.idx])
    /\ LET normalized == Top.normalized
           href       == Top.hrefs[Top.idx]
           full       == SplitHashFirst(urljoin(normalized, href))
           next_depth == Top.depth + 1
           after      == [Top EXCEPT !.idx = @ + 1]
       IN  /\ ~SkipLink(full)
           /\ \E resp \in HeadResponses(urljoin(normalized, href)) :
                 LET r == check_link(normalized, href, resp)
                 IN  /\ Affordable(HeadFails(resp), resp)
                     /\ faults' = Spend(HeadFails(resp), resp)
                     /\ link_counter' = r.link_counter
                     /\ ok_counter' = r.ok_counter
                     /\ broken_counter' = r.broken_counter
                     /\ trace' = Append(trace, Event("HEAD", normalized,
                                                     urljoin(normalized, href),
                                                     Top.depth, ~HeadFails(resp)))
                     /\ IF ErrorReported(r.err)
                        THEN /\ broken_links' =
                                    AppendBroken(broken_links, normalized, <<r.bad, r.err>>)
                             /\ log' = write_broken_link_to_log(log, normalized, r.bad, r.err)
                        ELSE UNCHANGED <<broken_links, log>>
           /\ stack' = IF Recurse(full, next_depth)
                       THEN Append(Append(Pop, after), Call(full, next_depth))
                       ELSE Append(Pop, after)
    /\ UNCHANGED <<config, visited, page_counter, pc, report>>

\* crawl_page, line 140: every anchor is processed, sleep and return.
PageDone ==
    /\ pc = "crawl" /\ stack # << >> /\ Top.at = "loop"
    /\ Top.idx > Len(Top.hrefs)
    /\ trace' = Append(trace, Event("SLEEP", Top.normalized, << >>, Top.depth, TRUE))
    /\ stack' = Pop
    /\ UNCHANGED <<config, visited, broken_links, page_counter, link_counter,
                   ok_counter, broken_counter, log, pc, report, faults>>

\* __main__, line 201, and print_final_report.
FinalReport ==
    /\ pc = "crawl"
    /\ stack = << >>
    /\ report' = <<page_counter, link_counter, ok_counter, broken_counter>>
    /\ pc' = "done"
    /\ UNCHANGED <<config, visited, broken_links, page_counter, link_counter,
                   ok_counter, broken_counter, log, stack, trace, faults>>

Next ==
    \/ Main
    \/ CrawlVisited
    \/ CrawlTooDeep
    \/ CrawlLoadError
    \/ CrawlLoaded
    \/ LinkRaises
    \/ LinkSkipped
    \/ LinkChecked
    \/ PageDone
    \/ FinalReport

Spec == Init /\ [][Next]_vars

\* The interpreter runs the single thread whenever it can take a step.
FairSpec == Spec /\ WF_vars(Next)

-----------------------------------------------------------------------------
(* Properties.                                                             *)

Gets == {i \in DOMAIN trace : trace[i].op = "GET"}

Heads == {i \in DOMAIN trace : trace[i].op = "HEAD"}

\* C1: no normalized URL is fetched with GET more than once in a run.
C1_NoUrlFetchedTwice ==
    \A i, j \in Gets :
        SplitHashFirst(trace[i].url) = SplitHashFirst(trace[j].url) => i = j

\* A finished crawl in which two different pages linked to the same target,
\* the target was fetched, and a link led back to a fetched page.
C1_Witness ==
    /\ pc = "done"
    /\ \E i, j \in Heads :
          /\ trace[i].page # trace[j].page
          /\ SplitHashFirst(trace[i].url) = SplitHashFirst(trace[j].url)
          /\ \E g \in Gets : trace[g].url = SplitHashFirst(trace[i].url)
    /\ \E h \in Heads : \E g \in Gets :
          g < h /\ trace[g].url = SplitHashFirst(trace[h].url)

C3_CountersMatchChecks ==
    /\ link_counter = Cardinality(Heads)
    /\ ok_counter = Cardinality({i \in Heads : trace[i].ok})
    /\ broken_counter = Cardinality({i \in Heads : ~trace[i].ok})
    /\ link_counter = ok_counter + broken_counter

\* A finished crawl with working links and broken links.
C3_Witness ==
    /\ pc = "done"
    /\ ok_counter >= 2
    /\ broken_counter = MaxFaults
    /\ page_counter >= 2

\* C4: a start URL that is not http(s) is rejected before crawling: no
\* request is made and no counter changes.
C4_InvalidSeedRejected ==
    ~is_http_url(start_url) =>
        /\ trace = << >>
        /\ visited = {}
        /\ page_counter = 0
        /\ link_counter = 0
        /\ ok_counter = 0
        /\ broken_counter = 0

\* The link the loop of the top activation is at.
CurrentFull == SplitHashFirst(urljoin(Top.normalized, Top.hrefs[Top.idx]))

AtUnwantedExternal ==
    /\ Looping
    /\ ~UrljoinRaises(Top.normalized, Top.hrefs[Top.idx])
    /\ ~StartsWith(CurrentFull, start_url)
    /\ ~use_external

\* C5: with use_external false, processing an external link of a fetched
\* page changes no counter, not the visited set, not the broken-link records
\* and not the log, and issues no request; the loop moves to the next link.
C5_UnwantedExternalSkipped ==
    [][AtUnwantedExternal =>
          /\ UNCHANGED <<link_counter, ok_counter, broken_counter, page_counter,
                         visited, broken_links, log, trace>>
          /\ stack' = Append(Pop, [Top EXCEPT !.idx = @ + 1])]_vars

\* The loop has just passed an external link with use_external false.
C5_Witness ==
    /\ pc = "crawl" /\ stack # << >> /\ Top.at = "loop"
    /\ ~use_external
    /\ start_url = SiteA
    /\ Top.idx > 1
    /\ ~UrljoinRaises(Top.normalized, Top.hrefs[Top.idx - 1])
    /\ ~StartsWith(SplitHashFirst(urljoin(Top.normalized, Top.hrefs[Top.idx - 1])),
                   start_url)
    /\ link_counter > 0

\* The references of a page, among its first n, that resolve to an external URL.
ExternalRefs(page, hrefs, n) ==
    {k \in 1..n :
        /\ ~UrljoinRaises(page, hrefs[k])
        /\ ~StartsWith(SplitHashFirst(urljoin(page, hrefs[k])), start_url)}

\* The number of probes a page has made of a URL.
ProbesOf(page, url) ==
    Cardinality({h \in Heads : trace[h].page = page /\ trace[h].url = url})

\* Scheme and host of the start URL.
SeedOrigin == SubSeq(start_url, 1, 2)

\* Each reference of a page to another origin than the seed's was probed.
ExternalRefsProbed(page, hrefs, n) ==
    \A k \in ExternalRefs(page, hrefs, n) :
        ~StartsWith(urljoin(page, hrefs[k]), SeedOrigin) =>
            ProbesOf(page, urljoin(page, hrefs[k])) >= 1

ExternalRefsProbedIffWanted(page, hrefs, n) ==
    \A k \in ExternalRefs(page, hrefs, n) :
        ProbesOf(page, urljoin(page, hrefs[k])) =
            IF use_external
            THEN Cardinality({j \in ExternalRefs(page, hrefs, n) :
                                 urljoin(page, hrefs[j]) = urljoin(page, hrefs[k])})
            ELSE 0

IsPageLoadError(row) == row[3] # << >> /\ row[3][1] = PageLoadErrorPrefix

\* The references of a page that the loop does not skip.
WantedRefs(page, hrefs) ==
    {k \in 1..Len(hrefs) :
        /\ ~UrljoinRaises(page, hrefs[k])
        /\ (StartsWith(SplitHashFirst(urljoin(page, hrefs[k])), start_url)
            \/ use_external)}

\* C7: a page whose GET fails is counted once in page_counter, gets exactly
\* one record with itself as source and as broken link and a reason that
\* starts with PAGE LOAD ERROR, and is not parsed, probed from or crawled
\* from; the crawl goes on, so that a finished crawl has probed every link
\* it does not skip on every page it loaded.
C7_PageLoadErrorRecorded ==
    /\ page_counter = Cardinality(Gets)
    /\ \A g \in Gets :
          ~trace[g].ok =>
              LET u == trace[g].url
              IN  /\ Cardinality({r \in 2..Len(log) :
                         log[r][1] = u /\ log[r][2] = u /\ IsPageLoadError(log[r])}) = 1
                  /\ u \in DOMAIN broken_links
                  /\ Cardinality({e \in DOMAIN broken_links[u] :
                         /\ broken_links[u][e][1] = u
                         /\ IsPageLoadError(<<u, u, CsvCell(broken_links[u][e][2])>>)}) = 1
                  /\ \A e \in DOMAIN trace : trace[e].page = u => e = g
                  /\ \A f \in 1..Len(stack) :
                         stack[f].at = "loop" => stack[f].normalized # u
    /\ pc = "done" =>
          \A g \in Gets :
              trace[g].ok =>
                  \A k \in WantedRefs(trace[g].url, Anchors(trace[g].url)) :
                      ProbesOf(trace[g].url,
                               urljoin(trace[g].url, Anchors(trace[g].url)[k])) >= 1

\* A finished crawl in which a page below the seed failed to load and a
\* page above it went on to check a later link.
C7_Witness ==
    /\ pc = "done"
    /\ \E g \in Gets :
          /\ ~trace[g].ok
          /\ trace[g].depth >= 1
          /\ \E h \in Heads : h > g /\ trace[h].depth < trace[g].depth

\* C8: between link checks, the records that are not page-load errors are
\* as many as broken_counter: every broken link has its record.
C8_RecordPerBrokenLink ==
    pc # "main" =>
        Cardinality({r \in 2..Len(log) : ~IsPageLoadError(log[r])}) = broken_counter

\* The rows of the log with a given source page, as broken_links holds them.
RowsOf(key) ==
    [i \in 1..Len(broken_links[key]) |->
        <<key, broken_links[key][i][1], CsvCell(broken_links[key][i][2])>>]

LogIsHeaderAndRecords ==
    /\ Len(log) >= 1
    /\ log[1] = CsvHeader
    /\ \A r \in 2..Len(log) : log[r] # CsvHeader /\ log[r][1] \in DOMAIN broken_links
    /\ \A key \in DOMAIN broken_links :
          SelectSeq(Tail(log), LAMBDA row : row[1] = key) = RowsOf(key)

LogOnlyGrows ==
    \/ log' = log
    \/ Len(log') = Len(log) + 1 /\ SubSeq(log', 1, Len(log)) = log

\* C9: once the run has started the log is the header row followed by one
\* row per broken-link record, in the order the records were made; nothing
\* is requested or counted before the header is written; and a step only
\* appends to the log.
C9_LogIsHeaderThenRecords ==
    /\ [](pc # "main" => LogIsHeaderAndRecords)
    /\ [](pc = "main" => trace = << >> /\ broken_links = << >>)
    /\ [][pc # "main" => LogOnlyGrows]_vars

\* A finished crawl that logged records of two different source pages.
C9_Witness ==
    /\ pc = "done"
    /\ Len(log) >= 3
    /\ log[2][1] # log[3][1]

\* C10: the crawl ends with the final report: the program never stops
\* anywhere but after print_final_report.
C10_CrawlReachesFinalReport == pc = "done" \/ ENABLED Next

\* An href that urllib cannot parse.
MalformedHref == <<"//[">>

\* C11: at a malformed href the engine goes on: the crawl keeps running and
\* the loop of the page moves to its next link.
C11_MalformedHrefNeverAborts ==
    [][(Looping /\ Top.hrefs[Top.idx] = MalformedHref) =>
          /\ pc' = "crawl"
          /\ Len(stack') >= Len(stack)
          /\ stack'[Len(stack)] = [Top EXCEPT !.idx = @ + 1]]_vars

\* The depth policy of a link found at a page of the given depth.
WithinLimits(full, next_depth) ==
    IF StartsWith(full, start_url)
    THEN next_depth <= max_internal
    ELSE use_external /\ next_depth <= max_external

InternalRefs(page, hrefs, n) ==
    {k \in 1..n :
        /\ ~UrljoinRaises(page, hrefs[k])
        /\ StartsWith(SplitHashFirst(urljoin(page, hrefs[k])), start_url)}

\* Each internal reference among the first n of a page was probed exactly
\* once per occurrence.
InternalRefsProbedOnce(page, hrefs, n) ==
    \A k \in InternalRefs(page, hrefs, n) :
        ProbesOf(page, urljoin(page, hrefs[k])) =
            Cardinality({j \in InternalRefs(page, hrefs, n) :
                            urljoin(page, hrefs[j]) = urljoin(page, hrefs[k])})

\* The internal links a page's loop has passed, and all internal links of
\* the pages of a finished crawl, were probed once each.
InternalLinksProbed ==
    /\ \A f \in 1..Len(stack) :
          stack[f].at = "loop" =>
              InternalRefsProbedOnce(stack[f].normalized, stack[f].hrefs,
                                     stack[f].idx - 1)
    /\ pc = "done" =>
          \A g \in Gets :
              trace[g].ok =>
                  InternalRefsProbedOnce(trace[g].url, Anchors(trace[g].url),
                                         Len(Anchors(trace[g].url)))

C14_InternalIffSeedOriginPrefix ==
    /\ Entering =>
          (IsInternal(SplitHashFirst(Top.url))
              <=> StartsWith(SplitHashFirst(Top.url), SeedOrigin))
    /\ (Looping /\ ~UrljoinRaises(Top.normalized, Top.hrefs[Top.idx])) =>
          (StartsWith(CurrentFull, start_url)
              <=> StartsWith(CurrentFull, SeedOrigin))

IsRequest(e) == e.op \in {"GET", "HEAD"}

\* C15: a sleep lies between any two consecutive HTTP requests.
C15_SleepBetweenRequests ==
    \A i \in 1..(Len(trace) - 1) :
        ~(IsRequest(trace[i]) /\ IsRequest(trace[i + 1]))

\* The pages that loaded.
OkPages == {trace[g].url : g \in {h \in Gets : trace[h].ok}}

\* The internal URLs a page links to.
InternalTargets(page) ==
    {SplitHashFirst(urljoin(page, Anchors(page)[k])) :
        k \in InternalRefs(page, Anchors(page), Len(Anchors(page)))}

\* The URLs within n links of the seed, through internal pages that loaded.
RECURSIVE WithinHops(_)
WithinHops(n) ==
    IF n = 0
    THEN {SplitHashFirst(start_url)}
    ELSE LET near == WithinHops(n - 1)
         IN  near \cup
             UNION {InternalTargets(p) :
                       p \in {q \in near \cap OkPages : StartsWith(q, start_url)}}

\* C16, as claimed: a finished crawl has fetched every internal page within
\* max_internal links of the seed.
C16_CompleteWithinHops ==
    pc = "done" =>
        \A u \in WithinHops(max_internal) :
            StartsWith(u, start_url) => u \in visited

\* What the depth-first traversal does reach: a finished crawl has fetched
\* every internal link target of every page that loaded at a depth below
\* max_internal, the depth being the one at which the page was first reached.
ClosedBelowFirstReachDepth ==
    pc = "done" =>
        \A g \in Gets :
            (trace[g].ok /\ trace[g].depth < max_internal) =>
                InternalTargets(trace[g].url) \subseteq visited

\* A finished crawl that reached /q first through /p, at the depth limit,
\* and so never fetched /r, two links away from the seed.
ShortPathMissed ==
    /\ pc = "done"
    /\ start_url = SiteA
    /\ \E g \in Gets :
          trace[g].url = PageQ /\ trace[g].ok /\ trace[g].depth = max_internal
    /\ PageR \in WithinHops(2)
    /\ max_internal = 2
    /\ PageR \notin visited

\* C17: the visited set is the set of URLs a GET was issued for, and
\* page_counter is its size.
C17_VisitedIsFetched ==
    /\ visited = {trace[g].url : g \in Gets}
    /\ page_counter = Cardinality(visited)

\* A finished crawl with a page that failed to load, a link to a visited
\* page and an internal link the depth limit kept from being fetched.
C17_Witness ==
    /\ pc = "done"
    /\ \E g \in Gets : ~trace[g].ok /\ trace[g].url \in visited
    /\ \E h \in Heads : \E g \in Gets :
          g < h /\ trace[g].url = SplitHashFirst(trace[h].url)
    /\ \E h \in Heads :
          /\ StartsWith(SplitHashFirst(trace[h].url), start_url)
          /\ SplitHashFirst(trace[h].url) \notin visited

\* C18: a run with an http(s) seed begins with the GET of the seed's page at
\* depth 0, the seed is classified internal, and its page is fetched once.
C18_SeedFetchedFirst ==
    (is_http_url(start_url) /\ pc \in {"done", "crashed"}) =>
        /\ IsInternal(SplitHashFirst(start_url))
        /\ Len(trace) >= 1
        /\ trace[1].op = "GET"
        /\ trace[1].url = SplitHashFirst(start_url)
        /\ trace[1].depth = 0
        /\ Cardinality({g \in Gets : trace[g].url = SplitHashFirst(start_url)}) = 1

SeqsUpTo(S, n) == UNION {[1..k -> S] : k \in 0..n}

\* URLs given to the fragment stripping: any tokens, '#' among them.
StripInputs == SeqsUpTo({"http://", "a", "/p", "#", "x"}, MaxUrlLen)

\* URLs without a fragment, and fragments (the text after the first '#').
FragmentFree == SeqsUpTo({"http://", "a", "/p"}, MaxUrlLen)

Fragments == SeqsUpTo({"x", "#"}, MaxFragLen)

StripIdempotent ==
    \A u \in StripInputs :
        SplitHashFirst(SplitHashFirst(u)) = SplitHashFirst(u)

StripFragmentInsensitive ==
    \A b \in FragmentFree : \A f1, f2 \in Fragments :
        /\ SplitHashFirst(b \o <<"#">> \o f1) = SplitHashFirst(b \o <<"#">> \o f2)
        /\ SplitHashFirst(b \o <<"#">> \o f1) = SplitHashFirst(b)
        /\ SplitHashFirst(b) = b

\* C19: stripping the fragment is idempotent and gives the same URL for
\* URLs that differ only in their fragment; a fetched URL holds no fragment,
\* and a link that differs only by fragment from a page fetched before it is
\* followed by no second fetch of that page.
C19_FragmentStripping ==
    /\ StripIdempotent
    /\ StripFragmentInsensitive
    /\ \A g \in Gets : SplitHashFirst(trace[g].url) = trace[g].url
    /\ \A h \in Heads :
          (/\ trace[h].url # SplitHashFirst(trace[h].url)
           /\ \E g \in Gets : g < h /\ trace[g].url = SplitHashFirst(trace[h].url))
          => ~\E g \in Gets : g > h /\ trace[g].url = SplitHashFirst(trace[h].url)

\* A finished crawl in which the seed page linked to itself with a fragment
\* and was fetched once.
C19_Witness ==
    /\ pc = "done"
    /\ start_url = SiteA
    /\ \E h \in Heads :
          /\ trace[h].url = SiteA \o <<"#", "x">>
          /\ trace[h].page = SiteA
          /\ \E g \in Gets : g < h /\ trace[g].url = SiteA
    /\ Cardinality({g \in Gets : trace[g].url = SiteA}) = 1
    /\ Cardinality(Gets) >= 2

====
